---- MODULE Spec2Model ----
(***************************************************************************)
(* The shell-command-line tokenizer of Desktop File Editor                 *)
(* (src/shellparse/mod.rs): parse() scans the Exec string one character at *)
(* a time.  A string is a sequence of one-character strings; Option<T> is  *)
(* a sequence of length at most one (None == <<>>, Some(x) == <<x>>).      *)
(***************************************************************************)
EXTENDS Integers, Sequences, FiniteSets, TLC

\* Longest input string that is enumerated.
MaxLen == 5

\* The characters inputs are made of: a plain character, the assignment
\* sign, two whitespace characters, both quote characters and the backslash.
Alphabet == {"a", "=", " ", "\t", "\"", "'", "\\"}

None == <<>>
Some(x) == <<x>>

\* Every string over Alphabet of at most MaxLen characters.
Inputs == UNION {[1..n -> Alphabet] : n \in 0..MaxLen}

\* char::is_whitespace, on the characters that occur here.
is_whitespace(c) == c \in {" ", "\t", "\n"}

\* str::contains(ch)
contains(s, ch) == \E i \in 1..Len(s) : s[i] = ch

\* Index of the first occurrence of ch in s (0 when there is none).
find(s, ch) ==
    IF contains(s, ch)
    THEN CHOOSE i \in 1..Len(s) : s[i] = ch /\ \A j \in 1..(i - 1) : s[j] # ch
    ELSE 0

\* Index of the last occurrence of ch in s (0 when there is none).
find_last(s, ch) ==
    IF contains(s, ch)
    THEN CHOOSE i \in 1..Len(s) : s[i] = ch /\ \A j \in (i + 1)..Len(s) : s[j] # ch
    ELSE 0

\* parse_variable splitting at the last '=' (rsplitn) instead of the first.
parse_variable_rsplit(token) ==
    LET i == find_last(token, "=")
    IN  IF i = 0 THEN None
        ELSE Some(<<SubSeq(token, 1, i - 1), SubSeq(token, i + 1, Len(token))>>)

\* parse_variable that refuses an empty variable name.
parse_variable_named(token) ==
    LET i == find(token, "=")
    IN  IF i <= 1 THEN None
        ELSE Some(<<SubSeq(token, 1, i - 1), SubSeq(token, i + 1, Len(token))>>)

\* parse_variable: token.splitn(2, '='), None unless that gives two parts.
parse_variable(token) ==
    LET i == find(token, "=")
    IN  IF i = 0 THEN None
        ELSE Some(<<SubSeq(token, 1, i - 1), SubSeq(token, i + 1, Len(token))>>)

\* The locals of parse() at its start.
parse_locals ==
    [token |-> <<>>, command |-> None, args |-> <<>>, whitespace |-> FALSE,
     string_delim |-> None, escape |-> FALSE, variables |-> <<>>]

\* token_finished without its early return on an empty token.
token_finished_keeps_empty(s) ==
    IF s.command = None
    THEN LET pv == parse_variable(s.token)
         IN  IF pv # None
             THEN [s EXCEPT !.variables = Append(@, pv[1]), !.token = <<>>]
             ELSE [s EXCEPT !.command = Some(s.token), !.token = <<>>]
    ELSE [s EXCEPT !.args = Append(@, s.token), !.token = <<>>]

\* token_finished that looks for VAR=value after the command is set too.
token_finished_vars_anywhere(s) ==
    IF s.token = <<>> THEN s
    ELSE LET pv == parse_variable(s.token)
         IN  IF pv # None
             THEN [s EXCEPT !.variables = Append(@, pv[1]), !.token = <<>>]
             ELSE IF s.command = None
                  THEN [s EXCEPT !.command = Some(s.token), !.token = <<>>]
                  ELSE [s EXCEPT !.args = Append(@, s.token), !.token = <<>>]

\* token_finished whose empty-token check guards the command only, so that
\* an empty token after the command is pushed as an argument.
token_finished_empty_arg(s) ==
    IF s.command = None
    THEN IF s.token = <<>> THEN s
         ELSE LET pv == parse_variable(s.token)
              IN  IF pv # None
                  THEN [s EXCEPT !.variables = Append(@, pv[1]), !.token = <<>>]
                  ELSE [s EXCEPT !.command = Some(s.token), !.token = <<>>]
    ELSE [s EXCEPT !.args = Append(@, s.token), !.token = <<>>]

\* parse::token_finished, on the record of parse()'s locals.
token_finished(s) ==
    IF s.token = <<>> THEN s
    ELSE IF s.command = None
         THEN LET pv == parse_variable(s.token)
              IN  IF pv # None
                  THEN [s EXCEPT !.variables = Append(@, pv[1]), !.token = <<>>]
                  ELSE [s EXCEPT !.command = Some(s.token), !.token = <<>>]
         ELSE [s EXCEPT !.args = Append(@, s.token), !.token = <<>>]

\* The loop head without the reset of the whitespace latch.
token_boundary_latch_kept(s, c) ==
    IF s.whitespace /\ ~is_whitespace(c) THEN token_finished(s) ELSE s

\* The head of the loop body: the deferred end of the previous token.
token_boundary(s, c) ==
    IF s.whitespace /\ ~is_whitespace(c)
    THEN [token_finished(s) EXCEPT !.whitespace = FALSE]
    ELSE s

\* Guard of the first match arm: '\\' if !escape.
is_escape_start(s, c) == c = "\\" /\ ~s.escape

\* The quote arm's guard without `if !escape`.
is_quote_when_escaped(s, c) == c \in {"\"", "'"}

\* Guard of the second match arm: '"' | '\'' if !escape.
is_quote(s, c) == c \in {"\"", "'"} /\ ~s.escape

\* The whitespace arm's guard without `string_delim.is_none()`.
is_separator_in_quotes(s, c) == is_whitespace(c) /\ ~s.escape

\* The whitespace arm's guard looking for the space character only.
is_separator_space_only(s, c) == c = " " /\ s.string_delim = None /\ ~s.escape

\* Guard of the third match arm: unquoted, unescaped whitespace.
is_separator(s, c) == is_whitespace(c) /\ s.string_delim = None /\ ~s.escape

\* The quote arm in which either quote character closes an open span.
quote_arm_any_closes(s, c) ==
    IF s.string_delim # None THEN [s EXCEPT !.string_delim = None]
    ELSE [s EXCEPT !.string_delim = Some(c)]

\* The quote arm in which the closing quote also ends the token.
quote_arm_ends_token(s, c) ==
    IF s.string_delim = Some(c)
    THEN [s EXCEPT !.string_delim = None, !.whitespace = TRUE]
    ELSE IF s.string_delim = None THEN [s EXCEPT !.string_delim = Some(c)]
    ELSE [s EXCEPT !.token = Append(@, c)]

\* The inner match of the quote arm on string_delim.
quote_arm(s, c) ==
    IF s.string_delim = Some(c) THEN [s EXCEPT !.string_delim = None]
    ELSE IF s.string_delim = None THEN [s EXCEPT !.string_delim = Some(c)]
    ELSE [s EXCEPT !.token = Append(@, c)]

\* The match on the character; st is the locals after it and
\* escape_set_this_iter the loop-local flag.
match_char(s, c) ==
    IF is_escape_start(s, c)
    THEN [st |-> [s EXCEPT !.escape = TRUE], escape_set_this_iter |-> TRUE]
    ELSE IF is_quote(s, c)
    THEN [st |-> quote_arm(s, c), escape_set_this_iter |-> FALSE]
    ELSE IF is_separator(s, c)
    THEN [st |-> [s EXCEPT !.whitespace = TRUE], escape_set_this_iter |-> FALSE]
    ELSE [st |-> [s EXCEPT !.token = Append(@, c)], escape_set_this_iter |-> FALSE]

\* One iteration of `for c in input.chars()`.
loop_body(s, c) ==
    LET m == match_char(token_boundary(s, c), c)
    IN  IF m.st.escape /\ ~m.escape_set_this_iter
        THEN [m.st EXCEPT !.escape = FALSE]
        ELSE m.st

\* The locals after the first n characters of inp.
RECURSIVE scan(_, _)
scan(inp, n) ==
    IF n = 0 THEN parse_locals
    ELSE CHOOSE after \in {loop_body(before, inp[n]) :
                               before \in {scan(inp, n - 1)}} : TRUE

\* The tail of parse() without the last token_finished.
parse_return_no_flush(s) ==
    IF s.command = None THEN None
    ELSE Some([command |-> s.command[1], args |-> s.args,
               variables |-> s.variables])

\* The tail of parse(): the last token_finished and the returned Option.
parse_return(s) ==
    LET f == token_finished(s)
    IN  IF f.command = None THEN None
        ELSE Some([command |-> f.command[1], args |-> f.args,
                   variables |-> f.variables])

\* parse(input) as a function of its input.
parse(inp) == parse_return(scan(inp, Len(inp)))

(***************************************************************************)
(* struct Command { command, args, variables } and its methods.  A Command *)
(* is a record; an entry of variables is the pair <<name, value>>.         *)
(***************************************************************************)

\* Longest args list, longest variables list and number of flatten_env
\* calls that are enumerated.
MaxArgs == 3
MaxVars == 2
MaxCalls == 2

\* The string "env".
Env == <<"e", "n", "v">>

\* The strings Command values are built from: env, a plain word, an option,
\* an option with '=', an assignment with a second '=', a lone '=' and the
\* empty string.
TokenPool ==
    {Env, <<"a">>, <<"-", "i">>, <<"-", "u", "=", "a">>, <<"a", "=", "=">>,
     <<"=">>, <<>>}

CommandPool == {Env, <<"a">>, <<>>}

VariablePool == {<<<<"a">>, <<"a">>>>, <<<<>>, <<"=">>>>}

\* Every Command value within the bounds.
Commands ==
    [command : CommandPool,
     args : UNION {[1..n -> TokenPool] : n \in 0..MaxArgs},
     variables : UNION {[1..n -> VariablePool] : n \in 0..MaxVars}]

\* str::starts_with(ch)
starts_with(s, ch) == Len(s) >= 1 /\ s[1] = ch

\* Command::is_env that never returns false.
is_env_always(c) == TRUE

\* Command::is_env
is_env(c) == c.command = Env

\* The binary test that forgets the '=' check.
is_binary_ignores_eq(arg) == ~starts_with(arg, "-")

\* The binary test that forgets the '-' check.
is_binary_ignores_dash(arg) == ~contains(arg, "=")

\* The test of the binary search in flatten_env.
is_binary(arg) == ~starts_with(arg, "-") /\ ~contains(arg, "=")

\* The binary search of flatten_env: Some(i) for the first args entry that
\* passes the test, None when there is none.  Indices count from 1 here and
\* from 0 in the source.
binary_index(a) ==
    IF \E i \in 1..Len(a) : is_binary(a[i])
    THEN Some(CHOOSE i \in 1..Len(a) :
                 is_binary(a[i]) /\ \A j \in 1..(i - 1) : ~is_binary(a[j]))
    ELSE None

\* The filter_map over the drained entries: the split of every entry that
\* parse_variable accepts, in order.
RECURSIVE drained_variables(_)
drained_variables(d) ==
    IF d = <<>> THEN <<>>
    ELSE LET pv == parse_variable(d[1])
         IN  (IF pv # None THEN <<pv[1]>> ELSE <<>>) \o drained_variables(Tail(d))

\* A drain of 0..=binary_index, which takes the binary with it.
drain_end_inclusive(i) == i

\* The number of entries args.drain(0..binary_index) removes, for the
\* binary at index i counted from 1.
drain_end(i) == i - 1

\* Command::flatten_env: cmd is the Command afterwards, panicked whether
\* args.remove(0) found no element.
flatten_env(c) ==
    IF ~is_env(c) THEN [cmd |-> c, panicked |-> FALSE]
    ELSE LET bi == binary_index(c.args)
         IN  IF bi = None THEN [cmd |-> c, panicked |-> FALSE]
             ELSE LET n == drain_end(bi[1])
                      drained == SubSeq(c.args, 1, n)
                      rest == SubSeq(c.args, n + 1, Len(c.args))
                      vs == c.variables \o drained_variables(drained)
                  IN  IF rest = <<>>
                      THEN [cmd |-> [c EXCEPT !.args = rest, !.variables = vs],
                            panicked |-> TRUE]
                      ELSE [cmd |-> [command |-> rest[1], args |-> Tail(rest),
                                     variables |-> vs],
                            panicked |-> FALSE]

\* What the first loop of fmt writes: NAME=value and a space per variable.
RECURSIVE write_variables(_)
write_variables(vs) ==
    IF vs = <<>> THEN <<>>
    ELSE vs[1][1] \o <<"=">> \o vs[1][2] \o <<" ">> \o write_variables(Tail(vs))

\* What the loop over a slice of args writes: each entry and a space.
RECURSIVE write_args(_)
write_args(a) ==
    IF a = <<>> THEN <<>> ELSE a[1] \o <<" ">> \o write_args(Tail(a))

\* The end of the slice args[0..args.len() - 1]; -1 stands for the usize
\* subtraction 0 - 1, which panics with overflow checks and otherwise wraps
\* to usize::MAX, an end past the slice, which panics as well.
slice_end(a) == Len(a) - 1

\* fmt writing a space after every argument, the last one too.
fmt_trailing_space(c) ==
    [out |-> write_variables(c.variables) \o c.command \o <<" ">>
             \o write_args(c.args),
     panicked |-> FALSE]

\* <Command as Display>::fmt: out is what has been written to the formatter
\* and panicked whether the slice of args panicked.
fmt(c) ==
    LET head == write_variables(c.variables) \o c.command \o <<" ">>
        e == slice_end(c.args)
    IN  IF e < 0 THEN [out |-> head, panicked |-> TRUE]
        ELSE [out |-> head \o write_args(SubSeq(c.args, 1, e))
                      \o (IF c.args # <<>> THEN c.args[Len(c.args)] ELSE <<>>),
              panicked |-> FALSE]

\* The conversion that puts the command before the variables.
into_vec_command_first(c) ==
    <<c.command>>
    \o [k \in 1..Len(c.variables) |->
          c.variables[k][1] \o <<"=">> \o c.variables[k][2]]
    \o c.args

\* <Vec<String> as From<Command>>::from
into_vec(c) ==
    [k \in 1..Len(c.variables) |->
        c.variables[k][1] \o <<"=">> \o c.variables[k][2]]
    \o <<c.command>> \o c.args

VARIABLES input, pos, pc, token, command, args, whitespace, string_delim,
          escape, variables, result,
          given, cmd, calls, written, argv, status,
          threads,
          entry, validity_status, exec_result, tooltip,
          steam_command, appid, steam_app,
          home_dir, library_file, manifests, LIBRARY_FOLDERS, reads, changes,
          callers

\* The state of a run of parse().
parse_vars == <<input, pos, pc, token, command, args, whitespace, string_delim,
                escape, variables, result>>

\* The state of a Command value: as it was built (given), as it is now
\* (cmd), the number of flatten_env calls made on it, what Display has
\* written, the Vec<String> it was converted into, and whether it is still
\* usable ("ok"), was moved into the Vec ("moved") or a method panicked.
cmd_vars == <<given, cmd, calls, written, argv, status>>

\* The calls of parse() and flatten_env() running on several threads.
thread_vars == <<threads>>

\* A desktop entry file, the ValidityStatus held by its FileEntry, what
\* parse_exec returned last and what error_string returned last.
entry_vars == <<entry, validity_status, exec_result, tooltip>>

\* A Command asked whether it launches a Steam application.
appid_vars == <<steam_command, appid, steam_app>>

\* The home directory of the process, libraryfolders.vdf and the app
\* manifests on disk, the process-wide LIBRARY_FOLDERS cell, the number of
\* reads of libraryfolders.vdf and of changes made to the files, and the
\* threads calling is_app_installed.
steam_vars == <<home_dir, library_file, manifests, LIBRARY_FOLDERS, reads,
                changes, callers>>

\* The state of everything outside shellparse's parse() and Command.
outer_vars == <<thread_vars, entry_vars, appid_vars, steam_vars>>

vars == <<input, pos, pc, token, command, args, whitespace, string_delim,
          escape, variables, result, given, cmd, calls, written, argv, status,
          threads, entry, validity_status, exec_result, tooltip,
          steam_command, appid, steam_app,
          home_dir, library_file, manifests, LIBRARY_FOLDERS, reads, changes,
          callers>>

\* No thread is running.
NoThreads == threads = <<>>

\* No desktop entry is loaded.
NoEntry ==
    /\ entry = [name |-> FALSE, exec |-> None]
    /\ validity_status = [empty_name |-> FALSE, exec_ok |-> FALSE,
                          exec_fail_reason |-> None]
    /\ exec_result = None
    /\ tooltip = None

\* No Command is asked about Steam.
NoAppId ==
    /\ steam_command = [command |-> <<>>, args |-> <<>>, variables |-> <<>>]
    /\ appid = None
    /\ steam_app = None

\* The Steam library is not looked at.
NoSteam ==
    /\ home_dir = None
    /\ library_file = None
    /\ manifests = {}
    /\ LIBRARY_FOLDERS = [state |-> "uninit", value |-> None]
    /\ reads = 0
    /\ changes = 0
    /\ callers = <<>>

\* No Command value is in use.
NoCommand ==
    /\ given = [command |-> <<>>, args |-> <<>>, variables |-> <<>>]
    /\ cmd = given
    /\ calls = 0
    /\ written = None
    /\ argv = None
    /\ status = "ok"

\* parse()'s locals in the current state.
Locals ==
    [token |-> token, command |-> command, args |-> args,
     whitespace |-> whitespace, string_delim |-> string_delim,
     escape |-> escape, variables |-> variables]

SetLocals(s) ==
    /\ token' = s.token
    /\ command' = s.command
    /\ args' = s.args
    /\ whitespace' = s.whitespace
    /\ string_delim' = s.string_delim
    /\ escape' = s.escape
    /\ variables' = s.variables

Init ==
    /\ input \in Inputs
    /\ pos = 1
    /\ pc = "scan"
    /\ token = parse_locals.token
    /\ command = parse_locals.command
    /\ args = parse_locals.args
    /\ whitespace = parse_locals.whitespace
    /\ string_delim = parse_locals.string_delim
    /\ escape = parse_locals.escape
    /\ variables = parse_locals.variables
    /\ result = None
    /\ NoCommand
    /\ NoThreads /\ NoEntry /\ NoAppId /\ NoSteam

\* One loop iteration on the next character of the input.
Scan ==
    /\ pc = "scan"
    /\ pos <= Len(input)
    /\ SetLocals(loop_body(Locals, input[pos]))
    /\ pos' = pos + 1
    /\ UNCHANGED <<input, pc, result>>
    /\ UNCHANGED cmd_vars
    /\ UNCHANGED outer_vars

\* End of input: the last token is finished and parse() returns.
Finish ==
    /\ pc = "scan"
    /\ pos > Len(input)
    /\ SetLocals(token_finished(Locals))
    /\ result' = parse_return(Locals)
    /\ pc' = "done"
    /\ UNCHANGED <<input, pos>>
    /\ UNCHANGED cmd_vars
    /\ UNCHANGED outer_vars

Next == Scan \/ Finish

Spec == Init /\ [][Next]_vars

\* No parse() is running.
NoParse ==
    /\ input = <<>>
    /\ pos = 1
    /\ pc = "idle"
    /\ token = parse_locals.token
    /\ command = parse_locals.command
    /\ args = parse_locals.args
    /\ whitespace = parse_locals.whitespace
    /\ string_delim = parse_locals.string_delim
    /\ escape = parse_locals.escape
    /\ variables = parse_locals.variables
    /\ result = None

\* A Command value is built by its owner.
CmdInit ==
    /\ NoParse
    /\ given \in Commands
    /\ cmd = given
    /\ calls = 0
    /\ written = None
    /\ argv = None
    /\ status = "ok"
    /\ NoThreads /\ NoEntry /\ NoAppId /\ NoSteam

\* A call of cmd.flatten_env().
FlattenEnv ==
    /\ status = "ok"
    /\ calls < MaxCalls
    /\ LET r == flatten_env(cmd)
       IN  /\ cmd' = r.cmd
           /\ status' = IF r.panicked THEN "panic_flatten_env" ELSE "ok"
    /\ calls' = calls + 1
    /\ UNCHANGED <<given, written, argv>>
    /\ UNCHANGED parse_vars
    /\ UNCHANGED outer_vars

\* A call of cmd.to_string(), which runs fmt.
Display ==
    /\ status = "ok"
    /\ LET r == fmt(cmd)
       IN  /\ written' = Some(r.out)
           /\ status' = IF r.panicked THEN "panic_fmt" ELSE "ok"
    /\ UNCHANGED <<given, cmd, calls, argv>>
    /\ UNCHANGED parse_vars
    /\ UNCHANGED outer_vars

\* Vec::<String>::from(cmd), which consumes the Command.
IntoVec ==
    /\ status = "ok"
    /\ argv' = Some(into_vec(cmd))
    /\ status' = "moved"
    /\ UNCHANGED <<given, cmd, calls, written>>
    /\ UNCHANGED parse_vars
    /\ UNCHANGED outer_vars

CmdNext == FlattenEnv \/ Display \/ IntoVec

CmdSpec == CmdInit /\ [][CmdNext]_vars

(***************************************************************************)
(* Properties of parse().                                                  *)
(***************************************************************************)

Done == pc = "done"

\* The character the next loop iteration reads.
NextChar == input[pos]

\* A step of the scan loop is about to run.
Scanning == pc = "scan" /\ pos <= Len(input)

\* The next step hands the token to token_finished: the loop head at the
\* first character after a whitespace gap, or the end of the input.
TokenEnds ==
    /\ pc = "scan"
    /\ \/ pos > Len(input)
       \/ whitespace /\ ~is_whitespace(NextChar)

AllWhitespace(s) == \A i \in 1..Len(s) : is_whitespace(s[i])

\* The non-empty tokens handed to token_finished while the first n
\* characters of inp are read, in order.
RECURSIVE TokensWithin(_, _)
TokensWithin(inp, n) ==
    IF n = 0 THEN <<>>
    ELSE LET s == scan(inp, n - 1)
             before == TokensWithin(inp, n - 1)
         IN  IF s.whitespace /\ ~is_whitespace(inp[n]) /\ s.token # <<>>
             THEN Append(before, s.token)
             ELSE before

\* Every non-empty token of inp, the one pending at the end of input included.
Tokens(inp) ==
    LET s == scan(inp, Len(inp))
        t == TokensWithin(inp, Len(inp))
    IN  IF s.token # <<>> THEN Append(t, s.token) ELSE t

\* C1: for every input made only of whitespace characters (the empty string
\* included) parse returns None.
C1_WhitespaceOnlyIsNone ==
    (Done /\ AllWhitespace(input)) => result = None

\* C1 witness: parse has returned None on an input of two or more
\* whitespace characters.
C1_Witness ==
    Done /\ Len(input) >= 2 /\ AllWhitespace(input) /\ result = None

\* C2: whenever parse returns Some(c), c.command is a non-empty string and
\* so is every entry of c.args; the same holds of the locals at every step.
C2_CommandAndArgsNonEmpty ==
    /\ command # Some(<<>>)
    /\ \A i \in 1..Len(args) : args[i] # <<>>
    /\ (Done /\ result # None) =>
          /\ result[1].command # <<>>
          /\ \A i \in 1..Len(result[1].args) : result[1].args[i] # <<>>

\* C2 witness: parse has returned a command with an argument on an input
\* that also holds an empty quoted string.
C2_Witness ==
    /\ Done /\ result # None
    /\ Len(result[1].args) >= 1
    /\ \E i \in 1..(Len(input) - 1) :
          input[i] \in {"\"", "'"} /\ input[i + 1] = input[i]

\* C3: parse returns None exactly when every non-empty token of the input
\* contains '=' (in particular when there is no token, or only assignments).
C3_NoneIffNoCommandToken ==
    Done =>
      (result = None <=>
          \A i \in 1..Len(Tokens(input)) : contains(Tokens(input)[i], "="))

\* C3 witness: parse has returned None on an input of two assignments.
C3_Witness ==
    /\ Done /\ result = None
    /\ Len(Tokens(input)) >= 2
    /\ Len(variables) >= 2

\* C4: variables grows only while command is unset; once command is set,
\* every non-empty token that is finished is appended to args, whether or
\* not it contains '=', and command and variables stay as they are.
C4_AssignmentsOnlyBeforeCommand ==
    [][/\ (variables' # variables) => command = None
       /\ (command # None /\ TokenEnds /\ token # <<>>) =>
             /\ args' = Append(args, token)
             /\ variables' = variables
             /\ command' = command]_vars

\* C4 witness: parse has returned a command with a variable before it and
\* an argument containing '=' after it.
C4_Witness ==
    /\ Done /\ result # None
    /\ Len(result[1].variables) >= 1
    /\ \E i \in 1..Len(result[1].args) : contains(result[1].args[i], "=")

\* C5: an unescaped backslash is consumed without being appended; the one
\* character after it is appended to the token whatever it is, inside or
\* outside a quoted span, without ending the token or opening or closing a
\* span, and leaves no escape in effect for the character after it.
C5_EscapeProtectsOneCharacter ==
    [][Scanning =>
        /\ (NextChar = "\\" /\ ~escape) =>
              /\ escape'
              /\ token' = (IF whitespace THEN <<>> ELSE token)
              /\ string_delim' = string_delim
        /\ escape =>
              /\ token' = Append(token, NextChar)
              /\ string_delim' = string_delim
              /\ ~whitespace'
              /\ ~escape'
              /\ <<command, args, variables>>' = <<command, args, variables>>]_vars

\* C5 witness: inside a span opened by the first character, the escaped
\* copy of the same quote character has just been appended and the span is
\* still open.
C5_Witness ==
    /\ pc = "scan" /\ pos = 4
    /\ input[1] \in {"\"", "'"}
    /\ input[2] = "\\"
    /\ input[3] = input[1]
    /\ token = <<input[1]>>
    /\ string_delim = Some(input[1])
    /\ ~escape

\* C6: an open quoted span is closed only by an unescaped occurrence of the
\* quote character that opened it; the other quote character, unescaped, is
\* appended to the token and the span stays as it is.
C6_OnlySameQuoteCloses ==
    [][string_delim # None =>
        /\ (Scanning /\ ~escape /\ Some(NextChar) = string_delim) =>
              string_delim' = None /\ token' = token
        /\ (Scanning /\ ~escape /\ NextChar \in {"\"", "'"}
              /\ Some(NextChar) # string_delim) =>
              string_delim' = string_delim /\ token' = Append(token, NextChar)
        /\ (string_delim' # string_delim) =>
              /\ Scanning /\ ~escape /\ Some(NextChar) = string_delim
              /\ string_delim' = None]_vars

\* C6 witness: parse has returned a command that is the other quote
\* character, read unescaped inside a span that was then closed.
C6_Witness ==
    /\ Done /\ result # None
    /\ ~contains(input, "\\")
    /\ input[1] \in {"\"", "'"}
    /\ result[1].command \in {<<"\"">>, <<"'">>}
    /\ result[1].command # <<input[1]>>
    /\ string_delim = None

\* C7: whitespace read inside an open quoted span is appended to the token
\* and ends nothing; a token is ended (the latch set, and command, args or
\* variables changed by the loop) only by whitespace that is unquoted and
\* unescaped.
C7_QuotedWhitespaceIsLiteral ==
    [][Scanning =>
        /\ (is_whitespace(NextChar) /\ string_delim # None) =>
              /\ token' = Append(token, NextChar)
              /\ ~whitespace'
              /\ string_delim' = string_delim
              /\ <<command, args, variables>>' = <<command, args, variables>>
        /\ (whitespace' /\ ~whitespace) =>
              is_whitespace(NextChar) /\ string_delim = None /\ ~escape
        /\ (<<command, args, variables>>' # <<command, args, variables>>) =>
              whitespace]_vars

\* C7 witness: parse has returned an argument that holds whitespace, on an
\* input without a backslash.
C7_Witness ==
    /\ Done /\ result # None
    /\ ~contains(input, "\\")
    /\ \E i \in 1..Len(result[1].args) :
          \E j \in 1..Len(result[1].args[i]) :
              is_whitespace(result[1].args[i][j])

\* Position i of inp holds whitespace that is neither quoted nor escaped.
IsSeparatorAt(inp, i) ==
    LET s == scan(inp, i - 1)
    IN  is_whitespace(inp[i]) /\ s.string_delim = None /\ ~s.escape

\* The first n characters of inp with each run of unquoted, unescaped
\* whitespace replaced by one space.
RECURSIVE CollapseRuns(_, _)
CollapseRuns(inp, n) ==
    IF n = 0 THEN <<>>
    ELSE IF ~IsSeparatorAt(inp, n) THEN Append(CollapseRuns(inp, n - 1), inp[n])
    ELSE IF n > 1 /\ IsSeparatorAt(inp, n - 1) THEN CollapseRuns(inp, n - 1)
    ELSE Append(CollapseRuns(inp, n - 1), " ")

\* str::trim: s without its leading and trailing whitespace characters.
RECURSIVE Trim(_)
Trim(s) ==
    IF s = <<>> THEN s
    ELSE IF is_whitespace(s[1]) THEN Trim(Tail(s))
    ELSE IF is_whitespace(s[Len(s)]) THEN Trim(SubSeq(s, 1, Len(s) - 1))
    ELSE s

\* s without a leading and a trailing unquoted, unescaped space of its own.
TrimSeparators(s) ==
    LET lead == IF s # <<>> /\ IsSeparatorAt(s, 1) THEN 1 ELSE 0
        trail == IF Len(s) > lead /\ IsSeparatorAt(s, Len(s)) THEN 1 ELSE 0
    IN  SubSeq(s, 1 + lead, Len(s) - trail)

\* C8 as stated: the result equals the result for the input with each run
\* of unquoted, unescaped whitespace replaced by one space and all leading
\* and trailing whitespace removed.
C8_Original ==
    Done => result = parse(Trim(CollapseRuns(input, Len(input))))

\* C8 amended: the result equals the result for the input with each run of
\* unquoted, unescaped whitespace replaced by one space and the leading and
\* trailing runs of unquoted, unescaped whitespace removed; whitespace at
\* the end of the input that is escaped or inside an open quoted span
\* belongs to the last token and may not be removed.
C8_SeparatorRunsCollapse ==
    Done => result = parse(TrimSeparators(CollapseRuns(input, Len(input))))

\* C8 witness: parse has returned a command and an argument on an input
\* that has whitespace at one end and a run of two whitespace characters
\* between the two tokens, so that the rewritten input differs from it.
C8_Witness ==
    /\ Done /\ result # None
    /\ Len(result[1].args) = 1
    /\ is_whitespace(input[1]) \/ is_whitespace(input[Len(input)])
    /\ \E i \in 2..(Len(input) - 2) :
          /\ ~is_whitespace(input[i - 1])
          /\ is_whitespace(input[i]) /\ is_whitespace(input[i + 1])
          /\ ~is_whitespace(input[i + 2])
    /\ \A i \in 1..Len(input) : input[i] \notin {"\\", "\"", "'"}
    /\ TrimSeparators(CollapseRuns(input, Len(input))) # input

\* The locals when the loop has read the whole input, before the last
\* token_finished.
AtEnd == scan(input, Len(input))

\* The last token of a finished parse: the last argument, else the command,
\* else the last variable written back as name=value, else nothing.
LastToken ==
    IF result # None
    THEN IF result[1].args # <<>>
         THEN result[1].args[Len(result[1].args)]
         ELSE result[1].command
    ELSE IF variables # <<>>
    THEN variables[Len(variables)][1] \o <<"=">> \o variables[Len(variables)][2]
    ELSE <<>>

\* C9: parse is total: from every state before the return a step can be
\* taken, and the return comes when each character has been read once.  An
\* input that ends inside an open quoted span gives the text accumulated so
\* far as its last token, and an input that ends with an unescaped
\* backslash gives the result of the input without that backslash.
C9_TotalAndAbsorbsUnfinishedInput ==
    /\ pc \in {"scan", "done"}
    /\ pos \in 1..(Len(input) + 1)
    /\ pc = "scan" => ENABLED Next
    /\ Done =>
          /\ pos = Len(input) + 1
          /\ Len(result) <= 1
          /\ (AtEnd.string_delim # None /\ AtEnd.token # <<>>) =>
                LastToken = AtEnd.token
          /\ (Len(input) >= 1 /\ input[Len(input)] = "\\"
                /\ ~scan(input, Len(input) - 1).escape) =>
                result = parse(SubSeq(input, 1, Len(input) - 1))

\* C9 witness: parse has returned on an input that ends with an unescaped
\* backslash inside an open quoted span, and the text of the span is the
\* last argument.
C9_Witness ==
    /\ Done /\ result # None
    /\ string_delim # None
    /\ escape
    /\ input[Len(input)] = "\\"
    /\ Len(result[1].args) >= 1
    /\ LastToken = <<"a">>

IsDelimiterAt(inp, i) ==
    LET s == scan(inp, i - 1)
    IN  /\ inp[i] \in {"\"", "'"} /\ ~s.escape
        /\ s.string_delim \in {None, Some(inp[i])}

\* Position i of inp holds a backslash that escapes the next character.
IsEscapeAt(inp, i) == inp[i] = "\\" /\ ~scan(inp, i - 1).escape

\* The runs of characters of the first n characters of inp between
\* unescaped, unquoted whitespace, each without its span delimiters and
\* escaping backslashes; the last entry is the run still open at n.
RECURSIVE Runs(_, _)
Runs(inp, n) ==
    IF n = 0 THEN <<<<>>>>
    ELSE LET r == Runs(inp, n - 1)
             k == Len(r)
         IN  IF IsSeparatorAt(inp, n) THEN Append(r, <<>>)
             ELSE IF IsDelimiterAt(inp, n) \/ IsEscapeAt(inp, n) THEN r
             ELSE [r EXCEPT ![k] = Append(@, inp[n])]

\* s without its empty entries.
RECURSIVE NonEmpty(_)
NonEmpty(s) ==
    IF s = <<>> THEN <<>>
    ELSE IF s[1] = <<>> THEN NonEmpty(Tail(s))
    ELSE <<s[1]>> \o NonEmpty(Tail(s))

\* The tokens a finished parse has stored, in order: each variable written
\* back as name=value, the command, the arguments.
StoredTokens ==
    [k \in 1..Len(variables) |-> variables[k][1] \o <<"=">> \o variables[k][2]]
    \o (IF result # None
        THEN <<result[1].command>> \o result[1].args
        ELSE <<>>)

\* C11: the tokens parse stores are the whole runs of characters between
\* unescaped, unquoted whitespace: quoted spans and unquoted text that
\* touch are one token, with the quote characters removed.
C11_TouchingSpansAreOneToken ==
    Done =>
      /\ result # None => result[1].variables = variables
      /\ StoredTokens = NonEmpty(Runs(input, Len(input)))

\* C11 witness: parse has returned the command aaa for an input in which
\* unquoted text, a quoted span and unquoted text touch.
C11_Witness ==
    /\ Done /\ result # None
    /\ Len(input) = 5
    /\ input[1] = "a" /\ input[3] = "a" /\ input[5] = "a"
    /\ input[2] \in {"\"", "'"} /\ input[4] = input[2]
    /\ result[1].command = <<"a", "a", "a">>
    /\ result[1].args = <<>>

\* Positions i and i+1 of inp are an empty quoted string standing alone:
\* the same quote character twice, opening a span outside any span, with
\* whitespace or an end of the input on either side.
StandAloneEmptyAt(inp, i) ==
    /\ i + 1 <= Len(inp)
    /\ inp[i] \in {"\"", "'"} /\ inp[i + 1] = inp[i]
    /\ scan(inp, i - 1).string_delim = None /\ ~scan(inp, i - 1).escape
    /\ i = 1 \/ IsSeparatorAt(inp, i - 1)
    /\ i + 1 = Len(inp) \/ IsSeparatorAt(inp, i + 2)

\* inp without its characters i and i+1.
WithoutPair(inp, i) == SubSeq(inp, 1, i - 1) \o SubSeq(inp, i + 2, Len(inp))

\* C12: a token whose accumulated text is empty is stored nowhere, neither
\* as the command nor as an argument nor as a variable, and the tokens
\* around it are unaffected: the result for an input with a stand-alone
\* empty quoted string is the result for the input without it.
C12_EmptyTokenProducesNothing ==
    Done =>
      /\ \A k \in 1..Len(StoredTokens) : StoredTokens[k] # <<>>
      /\ \A i \in 1..Len(input) :
            StandAloneEmptyAt(input, i) => result = parse(WithoutPair(input, i))

\* C12 witness: parse has returned the command a, and nothing else, for an
\* input that holds a stand-alone empty quoted string beside it.
C12_Witness ==
    /\ Done /\ result # None
    /\ \E i \in 1..Len(input) : StandAloneEmptyAt(input, i)
    /\ result[1] = [command |-> <<"a">>, args |-> <<>>, variables |-> <<>>]

(***************************************************************************)
(* Properties of Command::flatten_env, Display and the conversion to       *)
(* Vec<String>, under CmdSpec.                                             *)
(***************************************************************************)

\* The string starts with '-' or contains '='.
IsFlagOrAssignment(s) ==
    \/ Len(s) >= 1 /\ s[1] = "-"
    \/ \E i \in 1..Len(s) : s[i] = "="

\* Entry i of a is the first that is neither a flag nor an assignment.
IsBinaryAt(a, i) ==
    /\ i \in 1..Len(a)
    /\ ~IsFlagOrAssignment(a[i])
    /\ \A j \in 1..(i - 1) : IsFlagOrAssignment(a[j])

\* The pair <<text before the first '=' of s, text after it>>.
SplitAtFirstEquals(s) ==
    LET i == CHOOSE i \in 1..Len(s) :
                 s[i] = "=" /\ \A j \in 1..(i - 1) : s[j] # "="
    IN  <<SubSeq(s, 1, i - 1), SubSeq(s, i + 1, Len(s))>>

\* The splits of the entries of a that contain '=', in order.
RECURSIVE SplitsOf(_)
SplitsOf(a) ==
    IF a = <<>> THEN <<>>
    ELSE (IF \E i \in 1..Len(a[1]) : a[1][i] = "="
          THEN <<SplitAtFirstEquals(a[1])>>
          ELSE <<>>) \o SplitsOf(Tail(a))

\* C13: flatten_env on a Command whose command is not "env" leaves
\* command, args and variables unchanged, however often it is called.
C13_NotEnvUnchanged ==
    given.command # Env => (cmd = given /\ status # "panic_flatten_env")

\* C13 witness: flatten_env has been called twice on a Command whose
\* command is a and whose args look like an env invocation.
C13_Witness ==
    /\ calls >= 2
    /\ given.command = <<"a">>
    /\ Len(given.args) >= 2
    /\ given.args[1] = <<"a", "=", "=">>
    /\ given.args[2] = <<"a">>
    /\ cmd = given

\* C14: flatten_env on an env Command in which every args entry starts with
\* '-' or contains '=' (or args is empty) leaves it unchanged.
C14_EnvWithoutBinaryUnchanged ==
    (given.command = Env
       /\ \A i \in 1..Len(given.args) : IsFlagOrAssignment(given.args[i]))
    => (cmd = given /\ status # "panic_flatten_env")

\* C14 witness: flatten_env has been called on an env Command whose args
\* are an option and an assignment.
C14_Witness ==
    /\ calls >= 1
    /\ given.command = Env
    /\ Len(given.args) >= 2
    /\ \E i, j \in 1..Len(given.args) :
          given.args[i] = <<"-", "i">> /\ given.args[j] = <<"a", "=", "=">>
    /\ \A i \in 1..Len(given.args) : IsFlagOrAssignment(given.args[i])
    /\ cmd = given

\* C15: flatten_env on an env Command whose first args entry that neither
\* starts with '-' nor contains '=' is at index i gives command = args[i],
\* args = the entries after i, and variables = the old variables followed
\* by the splits at the first '=' of the entries before i that contain '='.
C15_FlattenResult ==
    \A i \in 1..Len(given.args) :
        (calls = 1 /\ given.command = Env /\ IsBinaryAt(given.args, i)) =>
            /\ status # "panic_flatten_env"
            /\ cmd.command = given.args[i]
            /\ cmd.args = SubSeq(given.args, i + 1, Len(given.args))
            /\ cmd.variables =
                  given.variables \o SplitsOf(SubSeq(given.args, 1, i - 1))

\* C15 witness: flatten_env has turned env a== -i a a, with a variable
\* already present, into the command a with one argument and two variables.
C15_Witness ==
    /\ calls = 1
    /\ given.command = Env
    /\ Len(given.variables) = 1
    /\ given.args = <<<<"a", "=", "=">>, <<"-", "i">>, <<"a">>>>
    /\ cmd.command = <<"a">>
    /\ cmd.args = <<>>
    /\ cmd.variables = Append(given.variables, <<<<"a">>, <<"=">>>>)

\* C16: after flatten_env on an env Command in which a binary is found,
\* no args entry that stood before the binary and starts with '-' is
\* present in the variables or the args of the result.
C16_FlagsAreDropped ==
    \A i \in 1..Len(given.args) :
        (calls = 1 /\ given.command = Env /\ IsBinaryAt(given.args, i)) =>
            /\ cmd.args = SubSeq(given.args, i + 1, Len(given.args))
            /\ \A j \in 1..(i - 1) :
                  (Len(given.args[j]) >= 1 /\ given.args[j][1] = "-") =>
                      \A k \in (Len(given.variables) + 1)..Len(cmd.variables) :
                          cmd.variables[k][1] \o <<"=">> \o cmd.variables[k][2]
                             # given.args[j]

\* C17: flatten_env never panics: the removal of the binary from the front
\* of args after the drain always finds an element, from every Command that
\* can be reached.
C17_FlattenNeverPanics ==
    /\ status # "panic_flatten_env"
    /\ status = "ok" => ~flatten_env(cmd).panicked

\* C17 witness: flatten_env has returned on an env Command whose binary was
\* the last entry of args, after two drained entries.
C17_Witness ==
    /\ calls = 1 /\ status = "ok"
    /\ given.command = Env
    /\ Len(given.args) = 3
    /\ IsBinaryAt(given.args, 3)
    /\ cmd.args = <<>>

\* s[1] \o sep \o s[2] \o ... \o s[n], with no separator after the last.
RECURSIVE Join(_, _)
Join(s, sep) ==
    IF s = <<>> THEN <<>>
    ELSE IF Len(s) = 1 THEN s[1]
    ELSE s[1] \o sep \o Join(Tail(s), sep)

\* Each variable of c as NAME=value.
Assignments(c) ==
    [k \in 1..Len(c.variables) |->
        c.variables[k][1] \o <<"=">> \o c.variables[k][2]]

\* C18: Display of a Command with at least one argument writes each
\* variable as NAME=value followed by one space, then command, then the
\* args separated by single spaces, with no space after the last.
C18_DisplayWithArgs ==
    [][(Display /\ Len(cmd.args) >= 1) =>
          /\ status' = "ok"
          /\ written' =
                Some(Join(Assignments(cmd) \o <<cmd.command>> \o cmd.args,
                          <<" ">>))]_vars

\* C18 witness: Display has written two variables, the command and two
\* arguments of a Command that was not flattened.
C18_Witness ==
    /\ calls = 0 /\ status = "ok"
    /\ written # None
    /\ Len(cmd.variables) = 2
    /\ Len(cmd.args) = 2
    /\ cmd.command = <<"a">>
    /\ cmd.args[2] # <<>>
    /\ written[1][Len(written[1])] # " "

\* C19: Display of a Command whose args list is empty completes without
\* panicking and has written the variables, each followed by one space,
\* then command and one space.
C19_DisplayWithoutArgs ==
    [][(Display /\ cmd.args = <<>>) =>
          /\ status' = "ok"
          /\ written' =
                Some(Join(Assignments(cmd) \o <<cmd.command>>, <<" ">>)
                     \o <<" ">>)]_vars

\* C20: the conversion to Vec<String> gives one NAME=value string per
\* variable in stored order, then command, then every argument in stored
\* order: |variables| + 1 + |args| entries, none dropped or moved.
C20_TokenVector ==
    [][IntoVec =>
          /\ Len(argv') = 1
          /\ LET v == argv'[1]
                 nv == Len(cmd.variables)
             IN  /\ Len(v) = nv + 1 + Len(cmd.args)
                 /\ \A k \in 1..nv :
                       v[k] = cmd.variables[k][1] \o <<"=">>
                                 \o cmd.variables[k][2]
                 /\ v[nv + 1] = cmd.command
                 /\ \A k \in 1..Len(cmd.args) : v[nv + 1 + k] = cmd.args[k]]_vars

\* C20 witness: a Command with the same variable twice and the same
\* argument twice has been converted into a vector of five strings.
C20_Witness ==
    /\ status = "moved"
    /\ Len(cmd.variables) = 2 /\ cmd.variables[1] = cmd.variables[2]
    /\ Len(cmd.args) = 2 /\ cmd.args[1] = cmd.args[2]
    /\ Len(argv[1]) = 5

(***************************************************************************)
(* Further properties of parse().                                          *)
(***************************************************************************)

\* s holds no quote character and no backslash.
Plain(s) == \A i \in 1..Len(s) : s[i] \notin {"\"", "'", "\\"}

\* The maximal runs of non-whitespace characters of s, in order.
RECURSIVE Words(_)
Words(s) ==
    IF s = <<>> THEN <<>>
    ELSE IF is_whitespace(s[1]) THEN Words(Tail(s))
    ELSE LET stops == {i \in 1..Len(s) : is_whitespace(s[i])}
             k == IF stops = {} THEN Len(s) + 1
                  ELSE CHOOSE i \in stops : \A j \in stops : i <= j
         IN  <<SubSeq(s, 1, k - 1)>> \o Words(SubSeq(s, k, Len(s)))

\* C21: for every input with no quote character and no backslash for which
\* parse returns Some(c), the token vector of c is the sequence of the
\* whitespace-separated non-empty words of the input, and parsing that
\* vector joined with single spaces returns a Command equal to c.
C21_PlainInputRoundTrip ==
    (Done /\ Plain(input) /\ result # None) =>
        LET v == into_vec(result[1])
        IN  /\ v = Words(input)
            /\ parse(Join(v, <<" ">>)) = result

\* C21 witness: parse has returned a variable, a command and an argument
\* on a plain input whose words are separated by a tab and a space.
C21_Witness ==
    /\ Done /\ Plain(input) /\ result # None
    /\ Len(result[1].variables) = 1
    /\ Len(result[1].args) = 1
    /\ contains(input, "\t") /\ contains(input, " ")

\* Every '=' of inp lies inside a quoted span.
EqualsOnlyQuoted(inp) ==
    \A i \in 1..Len(inp) :
        inp[i] = "=" => scan(inp, i - 1).string_delim # None

\* C23: a token before the command whose '=' lies inside a quoted span is
\* taken as the command and not as a variable assignment (every span of the
\* input is closed).
C23_QuotedEqualsIsCommand ==
    (/\ Done
     /\ scan(input, Len(input)).string_delim = None
     /\ EqualsOnlyQuoted(input)
     /\ Tokens(input) # <<>>
     /\ contains(Tokens(input)[1], "=")) =>
        /\ result # None
        /\ result[1].command = Tokens(input)[1]
        /\ result[1].variables = <<>>

\* The four shapes of the scanner.
Idle == ~whitespace /\ string_delim = None /\ token = <<>>

InToken == ~whitespace /\ string_delim = None /\ token # <<>>

InQuotedSpan == ~whitespace /\ string_delim # None

WhitespaceSeen == whitespace /\ string_delim = None /\ ~escape

\* What token_finished has classified so far.
Classified == <<command, args, variables>>

\* C24: at every step of the scan the whitespace latch is true only when no
\* quoted span is open and no escape is pending, so the scanner is in one
\* of the shapes idle, in token, in quoted span, whitespace seen; the step
\* that reads the whitespace ending a token keeps the token and classifies
\* nothing, and a token is classified only by the step that reads the next
\* non-whitespace character or meets the end of the input.
C24_LatchAndDeferredClassification ==
    [][/\ Idle \/ InToken \/ InQuotedSpan \/ WhitespaceSeen
       /\ (Idle \/ InToken \/ InQuotedSpan \/ WhitespaceSeen)'
       /\ (~whitespace /\ whitespace') =>
             /\ token' = token
             /\ Classified' = Classified
             /\ string_delim = None /\ ~escape
       /\ Classified' # Classified => TokenEnds]_vars

\* C24 witness: the latch is set while a finished token waits to be
\* classified, after an earlier token was classified as the command.
C24_Witness ==
    /\ pc = "scan"
    /\ WhitespaceSeen /\ token # <<>>
    /\ command # None /\ args = <<>>

(***************************************************************************)
(* Command::find_steam_appid and Command::is_steam_app.                    *)
(***************************************************************************)

MaxSteamArgs == 2

STEAM_ARG_FORMAT ==
    <<"s", "t", "e", "a", "m", ":", "/", "/",
      "r", "u", "n", "g", "a", "m", "e", "i", "d", "/">>

Steam == <<"s", "t", "e", "a", "m">>

Digits == <<"0", "1", "2", "3", "4", "5", "6", "7", "8", "9">>

IsDigit(c) == \E i \in 1..10 : Digits[i] = c

DigitValue(c) == (CHOOSE i \in 1..10 : Digits[i] = c) - 1

\* u64::MAX, 18446744073709551615, as its decimal digits.
U64_MAX ==
    <<"1", "8", "4", "4", "6", "7", "4", "4", "0", "7",
      "3", "7", "0", "9", "5", "5", "1", "6", "1", "5">>

\* str::trim()
RECURSIVE trim(_)
trim(s) ==
    IF s = <<>> THEN s
    ELSE IF is_whitespace(s[1]) THEN trim(Tail(s))
    ELSE IF is_whitespace(s[Len(s)]) THEN trim(SubSeq(s, 1, Len(s) - 1))
    ELSE s

\* str::starts_with(&str)
has_prefix(s, p) == Len(s) >= Len(p) /\ SubSeq(s, 1, Len(p)) = p

\* str::trim_start_matches(&str): the prefix is removed as often as it
\* is found at the start of the string.
RECURSIVE trim_start_matches(_, _)
trim_start_matches(s, p) ==
    IF has_prefix(s, p)
    THEN trim_start_matches(SubSeq(s, Len(p) + 1, Len(s)), p)
    ELSE s

\* The digits of s without the zeros at its start.
RECURSIVE strip_zeros(_)
strip_zeros(s) ==
    IF s # <<>> /\ s[1] = "0" THEN strip_zeros(Tail(s)) ELSE s

\* a <= b for two digit strings of equal length.
RECURSIVE digits_le(_, _)
digits_le(a, b) ==
    IF a = <<>> THEN TRUE
    ELSE IF a[1] # b[1] THEN DigitValue(a[1]) < DigitValue(b[1])
    ELSE digits_le(Tail(a), Tail(b))

\* str::parse::<u64>().ok(): an optional '+', then one or more decimal
\* digits whose value fits 64 bits. A value is kept as its digits without
\* leading zeros.
parse_u64(s) ==
    LET digits == IF s # <<>> /\ s[1] = "+" THEN Tail(s) ELSE s
        value == strip_zeros(digits)
    IN  IF digits = <<>> \/ \E i \in 1..Len(digits) : ~IsDigit(digits[i])
        THEN None
        ELSE IF Len(value) > Len(U64_MAX)
                \/ (Len(value) = Len(U64_MAX) /\ ~digits_le(value, U64_MAX))
        THEN None
        ELSE Some(IF value = <<>> THEN <<"0">> ELSE value)

\* Command::find_steam_appid
find_steam_appid(c) ==
    LET hits == {i \in 1..Len(c.args) :
                    has_prefix(trim(c.args[i]), STEAM_ARG_FORMAT)}
    IN  IF hits = {} THEN None
        ELSE LET i == CHOOSE k \in hits : \A j \in hits : k <= j
             IN  parse_u64(trim_start_matches(trim(c.args[i]),
                                              STEAM_ARG_FORMAT))

\* Command::is_steam_app
is_steam_app(c) == c.command = Steam /\ find_steam_appid(c) # None

\* What may precede and follow the app id in an argument.
ArgHeads ==
    {<<>>, STEAM_ARG_FORMAT, <<" ">> \o STEAM_ARG_FORMAT,
     STEAM_ARG_FORMAT \o STEAM_ARG_FORMAT}

ArgTails ==
    {<<>>, <<"1">>, <<"+", "1">>, <<"0", "1">>, <<"1", "/", "a">>, <<"a">>,
     <<"1", " ">>, <<"-", "1">>, U64_MAX,
     SubSeq(U64_MAX, 1, Len(U64_MAX) - 1) \o <<"6">>}

SteamArgs == {h \o t : h \in ArgHeads, t \in ArgTails}

SteamCommands ==
    {[command |-> c, args |-> a, variables |-> <<>>] :
        c \in {Steam, <<"a">>},
        a \in UNION {[1..n -> SteamArgs] : n \in 0..MaxSteamArgs}}

\* A Command is built; nothing was asked of it yet.
AppIdInit ==
    /\ NoParse /\ NoCommand /\ NoThreads /\ NoEntry /\ NoSteam
    /\ steam_command \in SteamCommands
    /\ appid = None
    /\ steam_app = None

\* A call of steam_command.find_steam_appid().
FindSteamAppid ==
    /\ appid = None
    /\ appid' = Some(find_steam_appid(steam_command))
    /\ UNCHANGED <<steam_command, steam_app>>
    /\ UNCHANGED <<parse_vars, cmd_vars, thread_vars, entry_vars, steam_vars>>

\* A call of steam_command.is_steam_app().
IsSteamApp ==
    /\ steam_app = None
    /\ steam_app' = Some(is_steam_app(steam_command))
    /\ UNCHANGED <<steam_command, appid>>
    /\ UNCHANGED <<parse_vars, cmd_vars, thread_vars, entry_vars, steam_vars>>

AppIdNext == FindSteamAppid \/ IsSteamApp

AppIdSpec == AppIdInit /\ [][AppIdNext]_vars

\* What follows the first STEAM_ARG_FORMAT of a.
Remainder(a) == SubSeq(a, Len(STEAM_ARG_FORMAT) + 1, Len(a))

\* The app id of the first entry of c.args that, trimmed, starts with
\* STEAM_ARG_FORMAT: its remainder read as a u64.
FirstAppId(c) ==
    LET hits == {i \in 1..Len(c.args) :
                    has_prefix(trim(c.args[i]), STEAM_ARG_FORMAT)}
    IN  IF hits = {} THEN None
        ELSE LET i == CHOOSE k \in hits : \A j \in hits : k <= j
             IN  parse_u64(Remainder(trim(c.args[i])))

\* C30: is_steam_app returns true exactly when command is 'steam' and the
\* first args entry that, trimmed, starts with 'steam://rungameid/' has a
\* remainder that parses as a u64; find_steam_appid returns that number,
\* and None when there is no such entry or its remainder is no u64.
C30_SteamAppExactly ==
    /\ steam_app # None =>
          steam_app[1] = (/\ steam_command.command = Steam
                          /\ FirstAppId(steam_command) # None)
    /\ appid # None => appid[1] = FirstAppId(steam_command)

(***************************************************************************)
(* steamutil: the LIBRARY_FOLDERS cell and is_app_installed.               *)
(***************************************************************************)

MaxLookups == 2

MaxChanges == 2

\* The threads that call is_app_installed.
Callers == {"t1", "t2"}

AppIds == {1, 2}

LibraryPaths == {"lib1", "lib2"}

\* What libraryfolders.vdf can hold: text that is no VDF document, or the
\* library folders with the apps of each.
LibraryData ==
    {[valid |-> FALSE, folders |-> <<>>],
     [valid |-> TRUE, folders |-> <<[path |-> "lib1", apps |-> {1}]>>],
     [valid |-> TRUE, folders |-> <<[path |-> "lib1", apps |-> {}],
                                    [path |-> "lib2", apps |-> {1, 2}]>>]}

\* libraryfolders.vdf: missing or unreadable (None), or its text.
LibraryFiles == {None} \cup {Some(d) : d \in LibraryData}

\* The appmanifest_<id>.acf files that can exist, by library and app.
Manifests == LibraryPaths \X AppIds

\* fs::read_to_string(path).ok()
read_to_string(file) == file

\* vdf_reader::from_str(&data).ok()
from_str(data) == IF data.valid THEN Some(data.folders) ELSE None

\* The closure of LIBRARY_FOLDERS, run on the file as it is now.
library_folders_init(file) ==
    LET data == read_to_string(file)
    IN  IF data = None THEN None ELSE from_str(data[1])

\* Lazy: the closure still has to run.
needs_init_when_none(cell) ==
    cell.state = "uninit" \/ (cell.state = "init" /\ cell.value = None)

needs_init(cell) == cell.state = "uninit"

\* find_steamapps_path_for_app on the value of the cell.
find_steamapps_path_for_app(value, app_id) ==
    IF value = None THEN None
    ELSE LET folders == value[1]
             hits == {i \in 1..Len(folders) : app_id \in folders[i].apps}
         IN  IF hits = {} THEN None
             ELSE Some(folders[CHOOSE k \in hits : \A j \in hits : k <= j].path)

\* Path::exists() of the manifest of app_id under path.
exists(path, app_id) == <<path, app_id>> \in manifests

Resting ==
    [pc |-> "idle", app_id |-> 1, path |-> None, result |-> None, n |-> 0]

SteamInit ==
    /\ NoParse /\ NoCommand /\ NoThreads /\ NoEntry /\ NoAppId
    /\ home_dir \in {None, Some("home")}
    /\ library_file \in LibraryFiles
    /\ manifests \in SUBSET Manifests
    /\ LIBRARY_FOLDERS = [state |-> "uninit", value |-> None]
    /\ reads = 0
    /\ changes = 0
    /\ callers = [t \in Callers |-> Resting]

SteamOthersUnchanged ==
    UNCHANGED <<parse_vars, cmd_vars, thread_vars, entry_vars, appid_vars>>

\* The call returns r to thread t.
Return(t, r) ==
    callers' = [callers EXCEPT ![t] =
                   [@ EXCEPT !.pc = "idle", !.result = Some(r), !.n = @ + 1]]

\* Thread t calls is_app_installed(app_id).
Call(t) ==
    /\ callers[t].pc = "idle"
    /\ callers[t].n < MaxLookups
    /\ \E a \in AppIds :
          callers' = [callers EXCEPT ![t] =
                         [@ EXCEPT !.pc = "force", !.app_id = a,
                                   !.path = None, !.result = None]]
    /\ UNCHANGED <<home_dir, library_file, manifests, LIBRARY_FOLDERS, reads,
                   changes>>
    /\ SteamOthersUnchanged

\* Thread t dereferences LIBRARY_FOLDERS in find_steamapps_path_for_app:
\* it starts the closure when the cell is empty, waits while another
\* thread runs it, and otherwise looks the app up in the stored value.
Force(t) ==
    /\ callers[t].pc = "force"
    /\ LIBRARY_FOLDERS.state # "running"
    /\ IF needs_init(LIBRARY_FOLDERS)
       THEN /\ LIBRARY_FOLDERS' = [LIBRARY_FOLDERS EXCEPT !.state = "running"]
            /\ callers' = [callers EXCEPT ![t].pc = "init"]
       ELSE IF LIBRARY_FOLDERS.state = "poisoned"
       THEN /\ callers' = [callers EXCEPT ![t].pc = "panicked"]
            /\ UNCHANGED LIBRARY_FOLDERS
       ELSE LET found == find_steamapps_path_for_app(LIBRARY_FOLDERS.value,
                                                     callers[t].app_id)
            IN  /\ IF found = None
                   THEN Return(t, FALSE)
                   ELSE callers' = [callers EXCEPT ![t] =
                                       [@ EXCEPT !.pc = "exists1",
                                                 !.path = found]]
                /\ UNCHANGED LIBRARY_FOLDERS
    /\ UNCHANGED <<home_dir, library_file, manifests, reads, changes>>
    /\ SteamOthersUnchanged

\* Thread t runs the closure of LIBRARY_FOLDERS: expand_path panics
\* without a home directory, else the file is read and the outcome stored.
InitRead(t) ==
    /\ callers[t].pc = "init"
    /\ IF home_dir = None
       THEN /\ LIBRARY_FOLDERS' = [LIBRARY_FOLDERS EXCEPT !.state = "poisoned"]
            /\ callers' = [callers EXCEPT ![t].pc = "panicked"]
            /\ UNCHANGED reads
       ELSE /\ LIBRARY_FOLDERS' =
                  [state |-> "init", value |-> library_folders_init(library_file)]
            /\ callers' = [callers EXCEPT ![t].pc = "force"]
            /\ reads' = reads + 1
    /\ UNCHANGED <<home_dir, library_file, manifests, changes>>
    /\ SteamOthersUnchanged

\* The first app_manifest_path.exists() of is_app_installed.
Exists1(t) ==
    /\ callers[t].pc = "exists1"
    /\ IF exists(callers[t].path[1], callers[t].app_id)
       THEN callers' = [callers EXCEPT ![t].pc = "exists2"]
       ELSE Return(t, FALSE)
    /\ UNCHANGED <<home_dir, library_file, manifests, LIBRARY_FOLDERS, reads,
                   changes>>
    /\ SteamOthersUnchanged

\* The second app_manifest_path.exists(), whose value is returned.
Exists2(t) ==
    /\ callers[t].pc = "exists2"
    /\ Return(t, exists(callers[t].path[1], callers[t].app_id))
    /\ UNCHANGED <<home_dir, library_file, manifests, LIBRARY_FOLDERS, reads,
                   changes>>
    /\ SteamOthersUnchanged

\* Steam or the user rewrites libraryfolders.vdf.
ChangeLibraryFile ==
    /\ changes < MaxChanges
    /\ library_file' \in LibraryFiles \ {library_file}
    /\ changes' = changes + 1
    /\ UNCHANGED <<home_dir, manifests, LIBRARY_FOLDERS, reads, callers>>
    /\ SteamOthersUnchanged

\* An app is installed or removed: its manifest appears or disappears.
ChangeManifest ==
    /\ changes < MaxChanges
    /\ \E m \in Manifests :
          manifests' = IF m \in manifests THEN manifests \ {m}
                       ELSE manifests \cup {m}
    /\ changes' = changes + 1
    /\ UNCHANGED <<home_dir, library_file, LIBRARY_FOLDERS, reads, callers>>
    /\ SteamOthersUnchanged

SteamNext ==
    \/ \E t \in Callers : Call(t)
    \/ \E t \in Callers : Force(t)
    \/ \E t \in Callers : InitRead(t)
    \/ \E t \in Callers : Exists1(t)
    \/ \E t \in Callers : Exists2(t)
    \/ ChangeLibraryFile
    \/ ChangeManifest

SteamSpec == SteamInit /\ [][SteamNext]_vars

\* The step returns from a call of thread t.
Returns(t) == callers'[t].n = callers[t].n + 1

\* C29: libraryfolders.vdf is read at most once per process, by the thread
\* whose lookup finds the cell empty, other threads waiting for it; the
\* stored outcome never changes afterwards, whatever happens to the file,
\* and every call answers from it: true only for an app of a stored
\* folder, and false for every app when the stored outcome is None.
C29_LibraryFoldersReadOnce ==
    [][/\ reads <= 1 /\ reads' <= 1
       /\ reads' # reads =>
             /\ reads = 0
             /\ LIBRARY_FOLDERS.state = "running"
             /\ LIBRARY_FOLDERS' =
                   [state |-> "init",
                    value |-> library_folders_init(library_file)]
       /\ reads' = reads => (LIBRARY_FOLDERS'.value = LIBRARY_FOLDERS.value)
       /\ LIBRARY_FOLDERS.state = "init" => LIBRARY_FOLDERS' = LIBRARY_FOLDERS
       /\ \A t \in Callers :
             Returns(t) =>
                /\ LIBRARY_FOLDERS.state = "init" /\ reads = 1
                /\ callers'[t].result = Some(TRUE) =>
                      /\ LIBRARY_FOLDERS.value # None
                      /\ \E i \in 1..Len(LIBRARY_FOLDERS.value[1]) :
                            callers[t].app_id
                               \in LIBRARY_FOLDERS.value[1][i].apps
                /\ LIBRARY_FOLDERS.value = None =>
                      callers'[t].result = Some(FALSE)]_vars

\* C29 witness: the one read failed and None was stored; the file was
\* then replaced by a valid one and both threads, one of which had to
\* wait for the other's read, were still told that the app is missing.
C29_Witness ==
    /\ reads = 1
    /\ LIBRARY_FOLDERS = [state |-> "init", value |-> None]
    /\ changes = 1
    /\ library_file # None /\ library_file[1].valid
    /\ \A t \in Callers :
          callers[t].n >= 1 /\ callers[t].result = Some(FALSE)

(***************************************************************************)
(* flatten_env applied again.                                              *)
(***************************************************************************)

\* C26: flatten_env is idempotent on every Command: a second call leaves
\* the Command as the first call left it, also when the wrapped binary is
\* itself env.
C26_FlattenIdempotent ==
    [][(FlattenEnv /\ calls >= 1) => cmd' = cmd]_vars

(***************************************************************************)
(* window/file_entry: parse_exec, ValidityStatus and FileEntry.            *)
(***************************************************************************)

MaxWords == 3

\* The words an Exec line is made of.
ExecWords ==
    {Env, <<"a">>, <<"-", "i">>, <<"a", "=", "a">>, <<"\"", "\"">>,
     <<"'">>}

\* The words of w with one space between them.
RECURSIVE exec_line(_)
exec_line(w) ==
    IF w = <<>> THEN <<>>
    ELSE IF Len(w) = 1 THEN w[1]
    ELSE w[1] \o <<" ">> \o exec_line(Tail(w))

\* Exec lines that start Steam, with and without an app id.
SteamLines ==
    {exec_line(<<Steam, STEAM_ARG_FORMAT \o <<"1">>>>),
     exec_line(<<Steam, STEAM_ARG_FORMAT>>),
     exec_line(<<Env, Steam, STEAM_ARG_FORMAT \o <<"1">>>>)}

ExecLines ==
    {exec_line(w) : w \in UNION {[1..n -> ExecWords] : n \in 0..MaxWords}}
        \cup SteamLines

\* A desktop entry: whether it has a Name key, and its Exec key.
Entries ==
    [name : BOOLEAN, exec : {None} \cup {Some(x) : x \in ExecLines}]

\* ValidityStatus::default(), as derived.
DefaultValidityStatus ==
    [empty_name |-> FALSE, exec_ok |-> FALSE, exec_fail_reason |-> None]

Ok(binary) == [ok |-> TRUE, binary |-> binary, error |-> "none"]

Err(e) == [ok |-> FALSE, binary |-> <<>>, error |-> e]

\* parse_exec; installed is what steamutil::is_app_installed answers.
parse_exec(e, installed) ==
    IF e.exec = None THEN Err("ExecFieldNotFound")
    ELSE LET parsed == parse(e.exec[1])
         IN  IF parsed = None THEN Err("ExecParseError")
             ELSE IF is_steam_app(parsed[1]) /\ ~installed
             THEN Err("SteamAppNotInstalled")
             ELSE Ok(flatten_env(parsed[1]).cmd.command)

\* The match of from_desktop_entry on parse_exec's result r; found is
\* whether which::which finds the binary.
exec_status_no_field_fails(r, found) ==
    IF r.ok
    THEN IF found THEN <<TRUE, None>>
         ELSE <<FALSE, Some("cannot find binary path")>>
    ELSE IF r.error = "ExecParseError"
    THEN <<FALSE, Some("Exec parse error")>>
    ELSE IF r.error = "SteamAppNotInstalled"
    THEN <<FALSE, Some("Steam app not installed")>>
    ELSE <<FALSE, None>>

exec_status(r, found) ==
    IF r.ok
    THEN IF found THEN <<TRUE, None>>
         ELSE <<FALSE, Some("cannot find binary path")>>
    ELSE IF r.error = "ExecParseError"
    THEN <<FALSE, Some("Exec parse error")>>
    ELSE IF r.error = "SteamAppNotInstalled"
    THEN <<FALSE, Some("Steam app not installed")>>
    ELSE <<TRUE, None>>

\* The assert! of from_desktop_entry.
assertion(exec_ok, exec_fail_reason) ==
    \/ exec_ok /\ exec_fail_reason = None
    \/ ~exec_ok /\ exec_fail_reason # None

\* ValidityStatus::from_desktop_entry: the value built, and whether the
\* assertion let it be built.
from_desktop_entry(e, installed, found) ==
    LET s == exec_status(parse_exec(e, installed), found)
    IN  [asserted |-> assertion(s[1], s[2]),
         value |-> [empty_name |-> ~e.name, exec_ok |-> s[1],
                    exec_fail_reason |-> s[2]]]

\* ValidityStatus::is_valid
is_valid(v) == ~v.empty_name /\ v.exec_ok

\* ValidityStatus::error_string: the lines of the message, or a panic of
\* expect() when a failing exec field has no reason.
error_string(v) ==
    IF is_valid(v) THEN [panicked |-> FALSE, value |-> None]
    ELSE LET name_line == IF v.empty_name THEN <<"Missing name field">>
                          ELSE <<>>
         IN  IF ~v.exec_ok
             THEN IF v.exec_fail_reason = None
                  THEN [panicked |-> TRUE, value |-> None]
                  ELSE [panicked |-> FALSE,
                        value |-> Some(name_line \o v.exec_fail_reason)]
             ELSE [panicked |-> FALSE, value |-> Some(name_line)]

\* A FileEntry object is created for a desktop entry: its fields hold
\* their Default values until the properties are set.
EntryInit ==
    /\ NoParse /\ NoCommand /\ NoThreads /\ NoAppId /\ NoSteam
    /\ entry \in Entries
    /\ validity_status = DefaultValidityStatus
    /\ exec_result = None
    /\ tooltip = None

EntryOthersUnchanged ==
    UNCHANGED <<parse_vars, cmd_vars, thread_vars, appid_vars, steam_vars>>

\* FileEntry::from_path or update: the ValidityStatus is built from the
\* desktop entry and stored, unless the assertion fails.
FromPath ==
    /\ \E installed \in BOOLEAN, found \in BOOLEAN :
          LET r == from_desktop_entry(entry, installed, found)
          IN  /\ exec_result' =
                    Some([result |-> parse_exec(entry, installed),
                          asserted |-> r.asserted])
              /\ validity_status' =
                    IF r.asserted THEN r.value ELSE validity_status
    /\ UNCHANGED <<entry, tooltip>>
    /\ EntryOthersUnchanged

\* error_string() is called on the ValidityStatus the FileEntry holds.
ErrorString ==
    /\ tooltip' = Some(error_string(validity_status))
    /\ UNCHANGED <<entry, validity_status, exec_result>>
    /\ EntryOthersUnchanged

EntryNext == FromPath \/ ErrorString

EntrySpec == EntryInit /\ [][EntryNext]_vars

\* The Command parse returns for the Exec line of the entry.
Parsed == parse(entry.exec[1])

\* C25: for every Exec line for which parse returns Some(c), the command
\* left by flatten_env on c is non-empty, and when c is an env Command
\* with a binary among its args the command left neither starts with '-'
\* nor contains '='.
C25_FlattenedCommandIsBinary ==
    [][(/\ FromPath
        /\ entry.exec # None
        /\ Parsed # None
        /\ exec_result'[1].result.error # "SteamAppNotInstalled") =>
          LET r == exec_result'[1].result
              c == Parsed[1]
          IN  /\ r.ok
              /\ r.binary # <<>>
              /\ (/\ c.command = Env
                  /\ \E i \in 1..Len(c.args) : IsBinaryAt(c.args, i)) =>
                    ~starts_with(r.binary, "-") /\ ~contains(r.binary, "=")]_vars

\* C25 witness: parse_exec has flattened an Exec line that wraps a binary
\* in env with an assignment before it.
C25_Witness ==
    /\ exec_result # None
    /\ entry.exec # None /\ Parsed # None
    /\ Parsed[1].command = Env
    /\ Len(Parsed[1].args) = 2
    /\ contains(Parsed[1].args[1], "=")
    /\ exec_result[1].result = Ok(<<"a">>)

\* C27: every ValidityStatus built by from_desktop_entry has exec_ok true
\* exactly when exec_fail_reason is None, whatever parse_exec and the PATH
\* lookup return, so the assertion of from_desktop_entry holds.
C27_ExecOkIffNoReason ==
    [][FromPath =>
          /\ exec_result'[1].asserted
          /\ validity_status'.exec_ok
                <=> (validity_status'.exec_fail_reason = None)]_vars

\* C27 witness: a status was built for an entry without Exec key.
C27_Witness ==
    /\ exec_result # None
    /\ exec_result[1].result = Err("ExecFieldNotFound")
    /\ validity_status.exec_ok
    /\ validity_status.exec_fail_reason = None
    /\ validity_status.empty_name

\* C28: for every ValidityStatus a FileEntry can hold, the derived Default
\* value included, error_string returns without panicking, returns None
\* exactly when is_valid() is true, and a false exec_ok comes with a reason.
C28_ErrorStringNeverPanics ==
    [][ErrorString =>
          /\ ~tooltip'[1].panicked
          /\ (tooltip'[1].value = None) <=> is_valid(validity_status)
          /\ ~validity_status.exec_ok =>
                validity_status.exec_fail_reason # None]_vars

(***************************************************************************)
(* parse() and flatten_env() called from several threads.                  *)
(***************************************************************************)

ConcMaxLen == 2

\* The threads, each calling parse on its own string or flatten_env on
\* its own Command.
Workers == {"w1", "w2"}

ConcAlphabet == {"a", "=", " ", "\""}

ConcInputs == UNION {[1..n -> ConcAlphabet] : n \in 0..ConcMaxLen}

ConcTokens == {Env, <<"a">>, <<"a", "=">>, <<"-">>}

ConcCommands ==
    {[command |-> c, args |-> a, variables |-> <<>>] :
        c \in {Env, <<"a">>},
        a \in UNION {[1..n -> ConcTokens] : n \in 0..ConcMaxLen}}

NoInput == <<>>

NoGiven == [command |-> <<>>, args |-> <<>>, variables |-> <<>>]

\* A thread about to call parse(inp).
ParseTask(inp) ==
    [kind |-> "parse", input |-> inp, given |-> NoGiven, pos |-> 1,
     locals |-> parse_locals, pc |-> "run", out |-> None]

\* A thread about to call c.flatten_env().
FlattenTask(c) ==
    [kind |-> "flatten", input |-> NoInput, given |-> c, pos |-> 1,
     locals |-> parse_locals, pc |-> "run", out |-> None]

Tasks ==
    {ParseTask(inp) : inp \in ConcInputs}
        \cup {FlattenTask(c) : c \in ConcCommands}

\* Where the locals of the call made by thread t live: parse declares
\* them with let, so each call has them in its own frame; a parser
\* keeping them in statics would have one frame for all.
frame_static(t) == "w1"

frame(t) == t

ConcInit ==
    /\ NoParse /\ NoCommand /\ NoEntry /\ NoAppId /\ NoSteam
    /\ threads \in [Workers -> Tasks]

ConcOthersUnchanged ==
    UNCHANGED <<parse_vars, cmd_vars, entry_vars, appid_vars, steam_vars>>

\* Thread t runs one iteration of parse's loop.
ParseStep(t) ==
    /\ threads[t].kind = "parse"
    /\ threads[t].pc = "run"
    /\ threads[t].pos <= Len(threads[t].input)
    /\ LET f == frame(t)
           c == threads[t].input[threads[t].pos]
       IN  threads' = [threads EXCEPT
                          ![f].locals = loop_body(threads[f].locals, c),
                          ![t].pos = @ + 1]
    /\ ConcOthersUnchanged

\* Thread t reaches the end of its input: parse finishes the last token
\* and returns.
ParseFinish(t) ==
    /\ threads[t].kind = "parse"
    /\ threads[t].pc = "run"
    /\ threads[t].pos > Len(threads[t].input)
    /\ LET f == frame(t)
       IN  threads' = [threads EXCEPT
                          ![t].out = Some(parse_return(threads[f].locals)),
                          ![t].pc = "done",
                          ![f].locals = token_finished(threads[f].locals)]
    /\ ConcOthersUnchanged

\* Thread t calls flatten_env on its Command.
Flatten(t) ==
    /\ threads[t].kind = "flatten"
    /\ threads[t].pc = "run"
    /\ threads' = [threads EXCEPT
                      ![t].out = Some(flatten_env(threads[t].given).cmd),
                      ![t].pc = "done"]
    /\ ConcOthersUnchanged

ConcNext ==
    \/ \E t \in Workers : ParseStep(t)
    \/ \E t \in Workers : ParseFinish(t)
    \/ \E t \in Workers : Flatten(t)

ConcSpec == ConcInit /\ [][ConcNext]_vars

\* What the call of thread t returns when it runs alone.
Alone(t) ==
    IF threads[t].kind = "parse" THEN parse(threads[t].input)
    ELSE flatten_env(threads[t].given).cmd

\* C22: whatever the interleaving of the threads' steps, each call of
\* parse or flatten_env returns what it returns when run alone, and two
\* calls on equal inputs return equal results.
C22_CallsAreIndependent ==
    /\ \A t \in Workers :
          threads[t].pc = "done" => threads[t].out = Some(Alone(t))
    /\ \A t, u \in Workers :
          (/\ threads[t].pc = "done" /\ threads[u].pc = "done"
           /\ threads[t].kind = threads[u].kind
           /\ threads[t].input = threads[u].input
           /\ threads[t].given = threads[u].given) =>
              threads[t].out = threads[u].out

\* C22 witness: two threads have parsed different two-character inputs,
\* one to a Command and one to None, the second finishing while the first
\* was in the middle of its scan.
C22_Witness ==
    /\ threads["w1"].kind = "parse" /\ threads["w2"].kind = "parse"
    /\ Len(threads["w1"].input) = 2 /\ Len(threads["w2"].input) = 2
    /\ threads["w1"].pos = 2 /\ threads["w1"].pc = "run"
    /\ threads["w2"].pc = "done"
    /\ threads["w2"].out = Some(None)
    /\ threads["w1"].locals.token # <<>>

====
